---- MODULE Spec2Model ----
(***************************************************************************)
(* Model of the ARGO ocean-data query service (src/src/ocean_data_query.py) *)
(* and of the CSV loader (src/load_data.py).                                *)
(*                                                                         *)
(* Python values are modelled as tagged records: PyInt(n), PyNone, PyNaN,  *)
(* PyTs(t).  An SQL cell is a set: {} is NULL, {v} holds the value v, so   *)
(* that a comparison against NULL is never true, as in SQL.  A timestamp   *)
(* is <<year, month, day, hour>>.  A result of a step that may raise is    *)
(* [ok |-> TRUE, ...] or [ok |-> FALSE, exc |-> exception].                *)
(***************************************************************************)
EXTENDS Integers, Sequences, FiniteSets, TLC

\* ------------------------------------------------------------------ bounds
MaxRows == 2          \* rows of a CSV file, and so of the table

\* ------------------------------------------------------- program constants
SampleMaxLimit == 1000
QueryMaxLimit == 10000
LatLow == -90
LatHigh == 90
LonLow == -180
LonHigh == 180
SummaryGroupLimit == 12

DefaultTable == "argo_data"

\* ------------------------------------------------------------ Python values
PyNone == [t |-> "None"]
PyNaN == [t |-> "nan"]
PyInt(n) == [t |-> "int", v |-> n]
PyTs(ts) == [t |-> "datetime", v |-> ts]
PyDate(y, m, d) == [t |-> "date", y |-> y, m |-> m, d |-> d]
\* a str holding a date: three number fields and the two separators
PyDateStr(y, s1, m, s2, d) == [t |-> "str", y |-> y, s1 |-> s1, m |-> m, s2 |-> s2, d |-> d]
PyRange(lo, hi) == [t |-> "tuple", lo |-> lo, hi |-> hi]

\* an f-string: its text with the formatted values
Msg(text, args) == [text |-> text, args |-> args]

Exc(type, msg) == [type |-> type, msg |-> msg]
Raise(type, msg) == [ok |-> FALSE, exc |-> Exc(type, msg)]

Min(a, b) == IF a <= b THEN a ELSE b

\* ------------------------------------------------------------------- dates
TsLE(a, b) ==
    \/ a[1] < b[1]
    \/ a[1] = b[1] /\ a[2] < b[2]
    \/ a[1] = b[1] /\ a[2] = b[2] /\ a[3] < b[3]
    \/ a[1] = b[1] /\ a[2] = b[2] /\ a[3] = b[3] /\ a[4] <= b[4]

TsLT(a, b) == TsLE(a, b) /\ a # b

IsLeap(y) == (y % 4 = 0 /\ y % 100 # 0) \/ y % 400 = 0

DaysIn(y, m) ==
    IF m = 2 THEN (IF IsLeap(y) THEN 29 ELSE 28)
    ELSE IF m \in {4, 6, 9, 11} THEN 30 ELSE 31

\* datetime.strptime(s, "%Y-%m-%d"): the datetime at midnight, or ValueError
Strptime(s) ==
    IF s.s1 # "-" \/ s.s2 # "-"
    THEN Raise("ValueError", Msg("time data %r does not match format %r", <<s>>))
    ELSE IF s.m < 1 \/ s.m > 12
    THEN Raise("ValueError", Msg("time data %r does not match format %r", <<s>>))
    ELSE IF s.d < 1 \/ s.d > 31
    THEN Raise("ValueError", Msg("time data %r does not match format %r", <<s>>))
    ELSE IF s.d > DaysIn(s.y, s.m)
    THEN Raise("ValueError", Msg("day is out of range for month", <<>>))
    ELSE [ok |-> TRUE, val |-> <<s.y, s.m, s.d, 0>>]

\* datetime.combine(d, datetime.min.time()): TypeError unless d is a date
Combine(d) ==
    IF d.t = "date"
    THEN [ok |-> TRUE, val |-> <<d.y, d.m, d.d, 0>>]
    ELSE Raise("TypeError", Msg("combine() argument 1 must be datetime.date", <<>>))

\* d.strftime("%Y-%m-%d")
Strftime(d) == PyDateStr(d.y, "-", d.m, "-", d.d)


\* -------------------------------------------------------------- validation
Truthy(x) == x.t # "None"

\* mutant: a range of one point (min = max) is rejected
InvalidLatStrict(r) == ~(LatLow <= r.lo /\ r.lo < r.hi /\ r.hi <= LatHigh)

\* OceanDataQuery._validate_coordinates
InvalidLat(r) == ~(LatLow <= r.lo /\ r.lo <= r.hi /\ r.hi <= LatHigh)

InvalidLon(r) == ~(LonLow <= r.lo /\ r.lo <= r.hi /\ r.hi <= LonHigh)

_validate_coordinates(lat_range, lon_range) ==
    IF Truthy(lat_range) /\ InvalidLat(lat_range)
    THEN Raise("OceanDataQueryError",
               Msg("Invalid latitude range: %s. Must be between -90 and 90", <<lat_range>>))
    ELSE IF Truthy(lon_range) /\ InvalidLon(lon_range)
    THEN Raise("OceanDataQueryError",
               Msg("Invalid longitude range: %s. Must be between -180 and 180", <<lon_range>>))
    ELSE [ok |-> TRUE, val |-> TRUE]

\* one argument of _validate_dates: its datetime and its string form
ConvertDate(x) ==
    IF x.t = "str"
    THEN LET p == Strptime(x)
         IN  IF p.ok THEN [ok |-> TRUE, dt |-> p.val, str |-> x] ELSE p
    ELSE LET c == Combine(x)
         IN  IF c.ok THEN [ok |-> TRUE, dt |-> c.val, str |-> Strftime(x)] ELSE c

\* mutant: start_dt >= end_dt in place of start_dt > end_dt
StartNotBeforeEnd(start_dt, end_dt) == TsLE(end_dt, start_dt)

StartAfterEnd(start_dt, end_dt) == TsLT(end_dt, start_dt)

\* the body of the try block of _validate_dates
ValidateDatesBody(start_date, end_date) ==
    LET s == ConvertDate(start_date)
    IN  IF ~s.ok THEN s
        ELSE LET e == ConvertDate(end_date)
             IN  IF ~e.ok THEN e
                 ELSE IF StartAfterEnd(s.dt, e.dt)
                 THEN Raise("OceanDataQueryError",
                            Msg("Start date %s must be before end date %s", <<s.str, e.str>>))
                 ELSE [ok |-> TRUE, start_str |-> s.str, end_str |-> e.str]

\* OceanDataQuery._validate_dates: a ValueError becomes an OceanDataQueryError
_validate_dates(start_date, end_date) ==
    LET r == ValidateDatesBody(start_date, end_date)
    IN  IF ~r.ok /\ r.exc.type = "ValueError"
        THEN Raise("OceanDataQueryError", Msg("Invalid date format: %s", <<r.exc.msg>>))
        ELSE r

\* mutant: the upper bound itself is rejected
BadLimitExclusive(n, max) == n <= 0 \/ n >= max

\* the limit check of the three row-returning operations:
\* limit <= 0 or limit > max; comparing None with an int is a TypeError
BadLimit(n, max) == n <= 0 \/ n > max

CheckLimit(limit, max, text) ==
    IF limit.t # "int"
    THEN Raise("TypeError", Msg("'<=' not supported between instances of %s and 'int'", <<limit.t>>))
    ELSE IF BadLimit(limit.v, max)
    THEN Raise("OceanDataQueryError", Msg(text, <<>>))
    ELSE [ok |-> TRUE, val |-> limit.v]

\* ---------------------------------------------------------------- envelope
NoMetadata == [t |-> "None"]
Dict(d) == [t |-> "dict", d |-> d]
EmptyDict == Dict(<<>>)

\* mutant: "if metadata is not None" in place of "if metadata"
MetadataNotNone(metadata) == metadata.t = "dict"

\* truthiness of the metadata argument: None and {} are falsy
MetadataGiven(metadata) == metadata.t = "dict" /\ DOMAIN metadata.d # {}

IsoFormat(clock) == [iso |-> clock]

\* OceanDataQuery._format_response
_format_response(data, success, message, metadata, clock) ==
    LET response == [success |-> success, timestamp |-> IsoFormat(clock),
                     message |-> message, data |-> data]
    IN  IF MetadataGiven(metadata)
        THEN [k \in DOMAIN response \cup {"metadata"} |->
                 IF k = "metadata" THEN metadata ELSE response[k]]
        ELSE response

PyList(items) == [t |-> "list", items |-> items]

\* ---------------------------------------------------------------- database
\* an observation row: every cell is {} (NULL) or {value}
Row(datetime, lat, lon, mld) == [datetime |-> datetime, lat |-> lat, lon |-> lon, mld |-> mld]

RowA == Row({<<2019, 1, 29, 0>>}, {5}, {70}, {20})
RowB == Row({<<2019, 1, 30, 12>>}, {0}, {60}, {})
RowC == Row({<<2019, 1, 29, 0>>}, {50}, {100}, {0})

RowD == Row({}, {}, {70}, {5})

RowValues == {RowA, RowB, RowC, RowD}

Columns == <<"datetime", "lat", "lon", "mld">>

\* a table is a multiset of rows: the number of copies of each row
EmptyBag == [r \in RowValues |-> 0]

SeqToBag(s) == [r \in RowValues |-> Cardinality({i \in DOMAIN s : s[i] = r})]

RECURSIVE SumOver(_, _)
SumOver(b, S) ==
    IF S = {} THEN 0
    ELSE LET r == CHOOSE x \in S : TRUE IN b[r] + SumOver(b, S \ {r})

BagSize(b) == SumOver(b, DOMAIN b)

\* mutant: the longitude condition is left out of the WHERE clause
InBoxLatOnly(r, min_lat, max_lat, min_lon, max_lon) ==
    \E v \in r.lat : min_lat <= v /\ v <= max_lat

\* WHERE lat BETWEEN :min_lat AND :max_lat AND lon BETWEEN :min_lon AND :max_lon
InBox(r, min_lat, max_lat, min_lon, max_lon) ==
    /\ \E v \in r.lat : min_lat <= v /\ v <= max_lat
    /\ \E v \in r.lon : min_lon <= v /\ v <= max_lon

WhereLocation(b, min_lat, max_lat, min_lon, max_lon) ==
    [r \in RowValues |-> IF InBox(r, min_lat, max_lat, min_lon, max_lon) THEN b[r] ELSE 0]

\* a 'YYYY-MM-DD' parameter compared with the datetime column: midnight of that day
SqlTimestamp(s) == <<s.y, s.m, s.d, 0>>

\* WHERE datetime >= :start_date AND datetime <= :end_date
InDates(r, start_str, end_str) ==
    \E v \in r.datetime : TsLE(SqlTimestamp(start_str), v) /\ TsLE(v, SqlTimestamp(end_str))

WhereDates(b, start_str, end_str) ==
    [r \in RowValues |-> IF InDates(r, start_str, end_str) THEN b[r] ELSE 0]

\* ORDER BY datetime: ascending, NULLs last, ties in any order
KeyLE(a, b) == b = {} \/ \E x \in a, y \in b : TsLE(x, y)

OrderByDatetime(b) ==
    {s \in [1..BagSize(b) -> RowValues] :
        /\ SeqToBag(s) = b
        /\ \A i, j \in DOMAIN s : i < j => KeyLE(s[i].datetime, s[j].datetime)}

\* LIMIT :limit
Limit(s, n) == SubSeq(s, 1, Min(n, Len(s)))

\* the rows a SELECT ... ORDER BY datetime LIMIT n may return
SelectOrdered(b, n) == {Limit(s, n) : s \in OrderByDatetime(b)}

\* mutant: the connection is closed by hand after the statement, so a
\* statement that fails leaves it open
ExecuteCloseByHand(engine, d, results) ==
    IF engine.t = "None"
    THEN {[ok |-> FALSE, trace |-> <<>>,
           exc |-> Exc("AttributeError", Msg("'NoneType' object has no attribute 'connect'", <<>>))]}
    ELSE IF d.reach = "down"
    THEN {[ok |-> FALSE, trace |-> <<"connect">>,
           exc |-> Exc("OperationalError", Msg("could not connect to server", <<>>))]}
    ELSE IF ~d.exists
    THEN {[ok |-> FALSE, trace |-> <<"connect", "open", "execute">>,
           exc |-> Exc("ProgrammingError", Msg("relation %s does not exist", <<DefaultTable>>))]}
    ELSE {[ok |-> TRUE, trace |-> <<"connect", "open", "execute", "release">>, val |-> x] :
             x \in results}

\* with self.engine.connect() as conn: run one statement on the table.
\* results is the set of results the statement may produce.
Execute(engine, d, results) ==
    IF engine.t = "None"
    THEN {[ok |-> FALSE, trace |-> <<>>,
           exc |-> Exc("AttributeError", Msg("'NoneType' object has no attribute 'connect'", <<>>))]}
    ELSE IF d.reach = "down"
    THEN {[ok |-> FALSE, trace |-> <<"connect">>,
           exc |-> Exc("OperationalError", Msg("could not connect to server", <<>>))]}
    ELSE IF ~d.exists
    THEN {[ok |-> FALSE, trace |-> <<"connect", "open", "execute", "release">>,
           exc |-> Exc("ProgrammingError", Msg("relation %s does not exist", <<DefaultTable>>))]}
    ELSE {[ok |-> TRUE, trace |-> <<"connect", "open", "execute", "release">>, val |-> x] :
             x \in results}

\* ------------------------------------------------- rows to JSON-ready records
FromSql(col, cell) ==
    IF cell = {} THEN PyNaN
    ELSE LET v == CHOOSE x \in cell : TRUE
         IN  IF col = "datetime" THEN PyTs(v) ELSE PyInt(v)

IsNa(v) == v.t = "nan" \/ v.t = "None"

\* if pd.isna(value): record[key] = None
NaToNone(v) == IF IsNa(v) THEN PyNone ELSE v

ToRecord(r) ==
    [datetime |-> NaToNone(FromSql("datetime", r.datetime)),
     lat |-> NaToNone(FromSql("lat", r.lat)),
     lon |-> NaToNone(FromSql("lon", r.lon)),
     mld |-> NaToNone(FromSql("mld", r.mld))]

ToRecords(rows) == [i \in DOMAIN rows |-> ToRecord(rows[i])]

\* list(df.columns) if not df.empty else []
ColumnsOf(rows) == IF Len(rows) = 0 THEN <<>> ELSE Columns

\* ------------------------------------------------------------- operations
\* An operation yields the set of its possible outcomes [ret, trace]: ret is
\* what the caller gets, an envelope returned or an exception raised, and
\* trace the database events of the call.
Envelope(e) == [kind |-> "envelope", env |-> e]
Raised(exc) == [kind |-> "raise", exc |-> exc]

\* mutant: the handler catches OceanDataQueryError only
ExceptQueryErrorOnly(data, text, exc, trace, clock) ==
    IF exc.type = "OceanDataQueryError"
    THEN [ret |-> Envelope(_format_response(data, FALSE, Msg(text, <<exc.msg>>), NoMetadata, clock)),
          trace |-> trace]
    ELSE [ret |-> Raised(exc), trace |-> trace]

\* except Exception as e: return self._format_response(data, False, f"...{str(e)}")
ExceptException(data, text, exc, trace, clock) ==
    [ret |-> Envelope(_format_response(data, FALSE, Msg(text, <<exc.msg>>), NoMetadata, clock)),
     trace |-> trace]

\* return self._format_response(data=..., message=..., metadata=...)
ReturnResponse(data, success, message, metadata, clock) ==
    Envelope(_format_response(data, success, message, metadata, clock))

\* OceanDataQuery.get_sample_data
SampleSuccess(limit, rows, trace, clock) ==
    LET records == ToRecords(rows)
        metadata == Dict([query_type |-> "sample_data", limit |-> limit,
                          returned_records |-> Len(records), columns |-> ColumnsOf(rows)])
    IN  [ret |-> ReturnResponse(PyList(records), TRUE,
                                Msg("Retrieved %d sample records", <<Len(records)>>),
                                metadata, clock),
         trace |-> trace]

get_sample_data(self, d, limit, clock) ==
    LET text == "Error retrieving sample data: %s"
        c == CheckLimit(limit, SampleMaxLimit, "Limit must be between 1 and 1000")
    IN  IF ~c.ok THEN {ExceptException(PyList(<<>>), text, c.exc, <<>>, clock)}
        ELSE {IF q.ok THEN SampleSuccess(c.val, q.val, q.trace, clock)
                      ELSE ExceptException(PyList(<<>>), text, q.exc, q.trace, clock) :
                 q \in Execute(self.engine, d, SelectOrdered(d.rows, c.val))}

\* mutant: COUNT(DISTINCT ...) in place of COUNT(*)
CountDistinctRows(b) == Cardinality({r \in RowValues : b[r] > 0})

\* OceanDataQuery.get_data_count
CountRows(b) == BagSize(b)

get_data_count(self, d, clock) ==
    LET text == "Error counting records: %s"
    IN  {IF q.ok
         THEN [ret |-> ReturnResponse(Dict([total_records |-> q.val]), TRUE,
                                      Msg("Total records in %s: %d", <<self.table_name, q.val>>),
                                      Dict([query_type |-> "data_count",
                                            table_name |-> self.table_name]),
                                      clock),
               trace |-> q.trace]
         ELSE ExceptException(Dict([total_records |-> 0]), text, q.exc, q.trace, clock) :
            q \in Execute(self.engine, d, {CountRows(d.rows)})}

\* min_lat, max_lat = lat_range: unpacking None is a TypeError
Unpack(range) ==
    IF range.t = "tuple" THEN [ok |-> TRUE, lo |-> range.lo, hi |-> range.hi]
    ELSE Raise("TypeError", Msg("cannot unpack non-iterable NoneType object", <<>>))

\* OceanDataQuery.query_by_location
LocationSuccess(lat_range, lon_range, limit, rows, trace, clock) ==
    LET records == ToRecords(rows)
        metadata == Dict([query_type |-> "location_filter",
                          filters |-> [latitude_range |-> lat_range,
                                       longitude_range |-> lon_range],
                          limit |-> limit, returned_records |-> Len(records),
                          columns |-> ColumnsOf(rows)])
    IN  [ret |-> ReturnResponse(PyList(records), TRUE,
                                Msg("Retrieved %d records for location query", <<Len(records)>>),
                                metadata, clock),
         trace |-> trace]

\* mutant: the limit is checked before the coordinate ranges
QueryByLocationLimitFirst(self, d, lat_range, lon_range, limit, clock) ==
    LET text == "Error querying by location: %s"
        v == _validate_coordinates(lat_range, lon_range)
        c == CheckLimit(limit, QueryMaxLimit, "Limit must be between 1 and 10,000")
        lat == Unpack(lat_range)
        lon == Unpack(lon_range)
    IN  IF ~c.ok THEN {ExceptException(PyList(<<>>), text, c.exc, <<>>, clock)}
        ELSE IF ~v.ok THEN {ExceptException(PyList(<<>>), text, v.exc, <<>>, clock)}
        ELSE IF ~lat.ok THEN {ExceptException(PyList(<<>>), text, lat.exc, <<>>, clock)}
        ELSE IF ~lon.ok THEN {ExceptException(PyList(<<>>), text, lon.exc, <<>>, clock)}
        ELSE {IF q.ok THEN LocationSuccess(lat_range, lon_range, c.val, q.val, q.trace, clock)
                      ELSE ExceptException(PyList(<<>>), text, q.exc, q.trace, clock) :
                 q \in Execute(self.engine, d,
                               SelectOrdered(WhereLocation(d.rows, lat.lo, lat.hi, lon.lo, lon.hi),
                                             c.val))}

query_by_location(self, d, lat_range, lon_range, limit, clock) ==
    LET text == "Error querying by location: %s"
        v == _validate_coordinates(lat_range, lon_range)
        c == CheckLimit(limit, QueryMaxLimit, "Limit must be between 1 and 10,000")
        lat == Unpack(lat_range)
        lon == Unpack(lon_range)
    IN  IF ~v.ok THEN {ExceptException(PyList(<<>>), text, v.exc, <<>>, clock)}
        ELSE IF ~c.ok THEN {ExceptException(PyList(<<>>), text, c.exc, <<>>, clock)}
        ELSE IF ~lat.ok THEN {ExceptException(PyList(<<>>), text, lat.exc, <<>>, clock)}
        ELSE IF ~lon.ok THEN {ExceptException(PyList(<<>>), text, lon.exc, <<>>, clock)}
        ELSE {IF q.ok THEN LocationSuccess(lat_range, lon_range, c.val, q.val, q.trace, clock)
                      ELSE ExceptException(PyList(<<>>), text, q.exc, q.trace, clock) :
                 q \in Execute(self.engine, d,
                               SelectOrdered(WhereLocation(d.rows, lat.lo, lat.hi, lon.lo, lon.hi),
                                             c.val))}

\* OceanDataQuery.query_by_date_range
DateSuccess(start_str, end_str, limit, rows, trace, clock) ==
    LET records == ToRecords(rows)
        metadata == Dict([query_type |-> "date_range_filter",
                          filters |-> [start_date |-> start_str, end_date |-> end_str],
                          limit |-> limit, returned_records |-> Len(records),
                          columns |-> ColumnsOf(rows)])
    IN  [ret |-> ReturnResponse(PyList(records), TRUE,
                                Msg("Retrieved %d records for date range %s to %s",
                                    <<Len(records), start_str, end_str>>),
                                metadata, clock),
         trace |-> trace]

query_by_date_range(self, d, start_date, end_date, limit, clock) ==
    LET text == "Error querying by date range: %s"
        v == _validate_dates(start_date, end_date)
        c == CheckLimit(limit, QueryMaxLimit, "Limit must be between 1 and 10,000")
    IN  IF ~v.ok THEN {ExceptException(PyList(<<>>), text, v.exc, <<>>, clock)}
        ELSE IF ~c.ok THEN {ExceptException(PyList(<<>>), text, c.exc, <<>>, clock)}
        ELSE {IF q.ok THEN DateSuccess(v.start_str, v.end_str, c.val, q.val, q.trace, clock)
                      ELSE ExceptException(PyList(<<>>), text, q.exc, q.trace, clock) :
                 q \in Execute(self.engine, d,
                               SelectOrdered(WhereDates(d.rows, v.start_str, v.end_str), c.val))}

\* ------------------------------------------------------- get_data_summary
PyFloat(num, den) == [t |-> "float", num |-> num, den |-> den]
PyStr(v) == [t |-> "str", v |-> v]

\* the rows of the summary statement: WHERE mld IS NOT NULL
WhereMldNotNull(b) == [r \in DOMAIN b |-> IF r.mld # {} THEN b[r] ELSE 0]

Present(b) == {r \in DOMAIN b : b[r] > 0}

\* the non-NULL values of a column
ColumnValues(b, col) == UNION {r[col] : r \in Present(b)}

MinInt(S) == IF S = {} THEN {} ELSE {CHOOSE x \in S : \A y \in S : x <= y}
MaxInt(S) == IF S = {} THEN {} ELSE {CHOOSE x \in S : \A y \in S : y <= x}
MinTs(S) == IF S = {} THEN {} ELSE {CHOOSE x \in S : \A y \in S : TsLE(x, y)}
MaxTs(S) == IF S = {} THEN {} ELSE {CHOOSE x \in S : \A y \in S : TsLE(y, x)}

RECURSIVE SumMld(_, _)
SumMld(b, S) ==
    IF S = {} THEN 0
    ELSE LET r == CHOOSE x \in S : TRUE
         IN  b[r] * (CHOOSE v \in r.mld : TRUE) + SumMld(b, S \ {r})

\* AVG(mld) as the pair <<sum, count>>, NULL over no rows
AvgMld(b) == IF BagSize(b) = 0 THEN {} ELSE {<<SumMld(b, Present(b)), BagSize(b)>>}

\* the one row of the summary statement, columns 0..10 as fields c0..c10
SummaryRow(b) ==
    LET m == WhereMldNotNull(b)
    IN  [c0 |-> {BagSize(m)},
         c1 |-> MinInt(ColumnValues(m, "lat")), c2 |-> MaxInt(ColumnValues(m, "lat")),
         c3 |-> MinInt(ColumnValues(m, "lon")), c4 |-> MaxInt(ColumnValues(m, "lon")),
         c5 |-> MinTs(ColumnValues(m, "datetime")), c6 |-> MaxTs(ColumnValues(m, "datetime")),
         c7 |-> AvgMld(m),
         c8 |-> MinInt(ColumnValues(m, "mld")), c9 |-> MaxInt(ColumnValues(m, "mld")),
         c10 |-> {Cardinality(ColumnValues(m, "datetime"))}]

\* the (year, month) of datetime::date, NULL for a NULL datetime
YearMonth(r) == {<<v[1], v[2]>> : v \in r.datetime}

GroupLE(a, b) ==
    b = {} \/ \E x \in a, y \in b : x[1] < y[1] \/ (x[1] = y[1] /\ x[2] <= y[2])

RECURSIVE SortGroups(_)
SortGroups(K) ==
    IF K = {} THEN <<>>
    ELSE LET k == CHOOSE x \in K : \A y \in K : GroupLE(x, y)
         IN  <<k>> \o SortGroups(K \ {k})

GroupCount(b, k) == BagSize([r \in DOMAIN b |-> IF YearMonth(r) = k THEN b[r] ELSE 0])

\* mutant: the grouping statement without its LIMIT
TemporalQueryNoLimit(b) ==
    LET keys == SortGroups({YearMonth(r) : r \in Present(b)})
    IN  [i \in DOMAIN keys |-> [key |-> keys[i], record_count |-> GroupCount(b, keys[i])]]

\* GROUP BY year, month ORDER BY year, month LIMIT 12
TemporalQuery(b) ==
    LET keys == SortGroups({YearMonth(r) : r \in Present(b)})
        top == SubSeq(keys, 1, Min(SummaryGroupLimit, Len(keys)))
    IN  [i \in DOMAIN top |-> [key |-> top[i], record_count |-> GroupCount(b, top[i])]]

\* temporal_df.to_dict('records'): a NULL year or month arrives as NaN
TemporalRecord(g) ==
    IF g.key = {}
    THEN [year |-> PyNaN, month |-> PyNaN, record_count |-> PyInt(g.record_count)]
    ELSE LET k == CHOOSE x \in g.key : TRUE
         IN  [year |-> PyFloat(k[1], 1), month |-> PyFloat(k[2], 1),
              record_count |-> PyInt(g.record_count)]

\* the truth value of summary_row[i]: None and zero are falsy
IntTruthy(cell) == \E v \in cell : v # 0
AvgTruthy(cell) == \E v \in cell : v[1] # 0
TsTruthy(cell) == cell # {}

\* int(x) if x else 0
IntOrZero(cell) == IF IntTruthy(cell) THEN PyInt(CHOOSE v \in cell : TRUE) ELSE PyInt(0)
\* float(x) if x else None
FloatOrNone(cell) == IF IntTruthy(cell) THEN PyFloat(CHOOSE v \in cell : TRUE, 1) ELSE PyNone
AvgOrNone(cell) ==
    IF AvgTruthy(cell) THEN LET v == CHOOSE x \in cell : TRUE IN PyFloat(v[1], v[2]) ELSE PyNone
\* str(x) if x else None
StrOrNone(cell) == IF TsTruthy(cell) THEN PyStr(CHOOSE v \in cell : TRUE) ELSE PyNone

SummaryData(row, temporal) ==
    [dataset_overview |->
        [total_records |-> IntOrZero(row.c0), unique_dates |-> IntOrZero(row.c10),
         date_range |-> [earliest |-> StrOrNone(row.c5), latest |-> StrOrNone(row.c6)]],
     geographic_extent |->
        [latitude_range |-> [min |-> FloatOrNone(row.c1), max |-> FloatOrNone(row.c2)],
         longitude_range |-> [min |-> FloatOrNone(row.c3), max |-> FloatOrNone(row.c4)]],
     mixed_layer_depth_stats |->
        [average |-> AvgOrNone(row.c7), minimum |-> FloatOrNone(row.c8),
         maximum |-> FloatOrNone(row.c9)],
     temporal_distribution |-> PyList([i \in DOMAIN temporal |-> TemporalRecord(temporal[i])])]

\* with self.engine.connect() as conn: the two statements of get_data_summary
ExecuteSummary(engine, d) ==
    {IF q.ok THEN [q EXCEPT !.trace = <<"connect", "open", "execute", "execute", "release">>]
             ELSE q :
        q \in Execute(engine, d, {[row |-> SummaryRow(d.rows), temporal |-> TemporalQuery(d.rows)]})}

\* OceanDataQuery.get_data_summary
get_data_summary(self, d, clock) ==
    LET text == "Error generating data summary: %s"
    IN  {IF q.ok
         THEN [ret |-> ReturnResponse(Dict(SummaryData(q.val.row, q.val.temporal)), TRUE,
                                      Msg("Dataset summary generated successfully", <<>>),
                                      Dict([query_type |-> "data_summary",
                                            generated_at |-> IsoFormat(clock),
                                            table_name |-> self.table_name]),
                                      clock),
               trace |-> q.trace]
         ELSE ExceptException(Dict(<<>>), text, q.exc, q.trace, clock) :
            q \in ExecuteSummary(self.engine, d)}

\* ------------------------------------------------------------ construction
Engine == [t |-> "engine"]

\* the try block of OceanDataQuery._connect: create_engine, connect, SELECT 1.
\* engineOk: create_engine accepts the URL and finds its driver.
ConnectBody(engineOk, d) ==
    IF ~engineOk
    THEN [ok |-> FALSE, engine |-> PyNone, trace |-> <<>>,
          exc |-> Exc("ArgumentError", Msg("Could not parse SQLAlchemy URL", <<>>))]
    ELSE IF d.reach = "down"
    THEN [ok |-> FALSE, engine |-> Engine, trace |-> <<"connect">>,
          exc |-> Exc("OperationalError", Msg("could not connect to server", <<>>))]
    ELSE [ok |-> TRUE, engine |-> Engine,
          trace |-> <<"connect", "open", "execute", "release">>]

\* mutant: the failure of the probe is swallowed
ConnectSwallow(engineOk, d) == [ConnectBody(engineOk, d) EXCEPT !.ok = TRUE]

\* OceanDataQuery._connect: any failure is raised as OceanDataQueryError
_connect(engineOk, d) ==
    LET b == ConnectBody(engineOk, d)
    IN  IF b.ok THEN b
        ELSE [b EXCEPT !.exc = Exc("OceanDataQueryError",
                                   Msg("Failed to connect to database: %s", <<b.exc.msg>>))]

\* OceanDataQuery.__init__: the instance, or the exception that leaves it
__init__(table_name, engineOk, d) ==
    LET c == _connect(engineOk, d)
    IN  IF c.ok
        THEN [ok |-> TRUE, trace |-> c.trace,
              self |-> [alive |-> TRUE, table_name |-> table_name, engine |-> c.engine]]
        ELSE [ok |-> FALSE, trace |-> c.trace, exc |-> c.exc]

\* ------------------------------------------------------------------ loader
NoFile == [exists |-> FALSE]
BadFile == [exists |-> TRUE, readable |-> FALSE]
CsvFile(rows) == [exists |-> TRUE, readable |-> TRUE, rows |-> rows]

CsvFiles ==
    {NoFile, BadFile} \cup {CsvFile(s) : s \in UNION {[1..n -> RowValues] : n \in 0..MaxRows}}

\* mutant: if_exists='append', the rows are added to those of the table
ToSqlAppend(d, rows) ==
    [d EXCEPT !.exists = TRUE,
              !.rows = [r \in RowValues |-> d.rows[r] + SeqToBag(rows)[r]]]

\* df.to_sql(table_name, engine, if_exists='replace', index=False)
ToSql(d, rows) == [d EXCEPT !.exists = TRUE, !.rows = SeqToBag(rows)]

\* the table after df.to_sql failed part-way: untouched, dropped, or holding
\* the rows written so far (the source wraps the write in no transaction of
\* its own, so each of these is a possible outcome)
AfterFailedWrite(d, rows) ==
    {d, [d EXCEPT !.exists = FALSE, !.rows = EmptyBag]}
        \cup {ToSql(d, SubSeq(rows, 1, k)) : k \in 0..(Len(rows) - 1)}

\* the try block of load_argo_data: its outcomes, each the value returned or
\* the exception raised, the database afterwards and the events.
\* writeOk: df.to_sql runs to its end once connected.
LoadBody(csv, engineOk, writeOk, d) ==
    IF ~csv.exists THEN {[ok |-> TRUE, val |-> FALSE, db |-> d, trace |-> <<>>]}
    ELSE IF ~csv.readable
    THEN {[ok |-> FALSE, db |-> d, trace |-> <<>>,
           exc |-> Exc("ParserError", Msg("Error tokenizing data", <<>>))]}
    ELSE IF ~engineOk
    THEN {[ok |-> FALSE, db |-> d, trace |-> <<>>,
           exc |-> Exc("ArgumentError", Msg("Could not parse SQLAlchemy URL", <<>>))]}
    ELSE IF d.reach = "down"
    THEN {[ok |-> FALSE, db |-> d, trace |-> <<"connect">>,
           exc |-> Exc("OperationalError", Msg("could not connect to server", <<>>))]}
    ELSE IF ~writeOk
    THEN {[ok |-> FALSE, db |-> after, trace |-> <<"connect", "open", "execute", "release">>,
           exc |-> Exc("DataError", Msg("could not write the rows", <<>>))] :
             after \in AfterFailedWrite(d, csv.rows)}
    ELSE {[ok |-> TRUE, val |-> TRUE, db |-> ToSql(d, csv.rows),
           trace |-> <<"connect", "open", "execute", "release">>]}

Returns(v) == [kind |-> "bool", v |-> v]

\* mutant: the handler of the loader catches the database errors only
LoadExceptDatabaseErrors(b) ==
    IF b.ok THEN [ret |-> Returns(b.val), db |-> b.db, trace |-> b.trace]
    ELSE IF b.exc.type \in {"OperationalError", "DataError"}
    THEN [ret |-> Returns(FALSE), db |-> b.db, trace |-> b.trace]
    ELSE [ret |-> Raised(b.exc), db |-> b.db, trace |-> b.trace]

\* except Exception as e: return False
LoadExcept(b) ==
    IF b.ok THEN [ret |-> Returns(b.val), db |-> b.db, trace |-> b.trace]
    ELSE [ret |-> Returns(FALSE), db |-> b.db, trace |-> b.trace]

\* load_argo_data: its outcomes, each what the caller gets, the database
\* afterwards and the events
load_argo_data(csv, engineOk, writeOk, d) ==
    {LoadExcept(b) : b \in LoadBody(csv, engineOk, writeOk, d)}

\* ------------------------------------------------------------------ inputs
LimitValues == {PyNone} \cup {PyInt(n) : n \in {0, 1, 1000, 1001, 10000, 10001}}

LatRanges ==
    {PyNone, PyRange(-10, 10), PyRange(-100, 100), PyRange(-90, 90), PyRange(10, -10),
     PyRange(0, 0)}

LonRanges ==
    {PyRange(60, 80), PyRange(-200, 200), PyRange(-180, 180), PyRange(80, 60),
     PyRange(70, 70)}

DateValues ==
    {PyNone, PyDateStr(2019, "-", 1, "-", 29), PyDateStr(2019, "-", 1, "-", 30),
     PyDateStr(2019, "/", 1, "/", 29), PyDateStr(2019, "-", 2, "-", 30),
     PyDate(2019, 1, 29), PyDate(2019, 1, 30)}

\* the reading of datetime.now() during a call
ClockValues == {0}

\* ------------------------------------------------------------------- state
VARIABLES
    db,      \* the database: reachability, the table (if any) and its rows
    inst,    \* the OceanDataQuery instance the caller holds, if any
    call,    \* the last call: operation, how it was called, arguments, events
    ret,     \* what the last call gave the caller
    conns,   \* the number of database connections held open
    loaded   \* the number of rows of the CSV file whose load made the table
             \* what it is, -1 when no load did (history)

vars == <<db, inst, call, ret, conns, loaded>>

\* the connections a sequence of events leaves open
RECURSIVE Held(_)
Held(trace) ==
    IF trace = <<>> THEN 0
    ELSE (CASE Head(trace) = "open" -> 1
            [] Head(trace) = "release" -> -1
            [] OTHER -> 0) + Held(Tail(trace))

NoInstance == [alive |-> FALSE, table_name |-> DefaultTable, engine |-> PyNone]

NoCall == [op |-> "none", via |-> "none", args |-> <<>>, trace |-> <<>>]

Init ==
    /\ db = [reach |-> "up", exists |-> FALSE, rows |-> EmptyBag]
    /\ inst = NoInstance
    /\ call = NoCall
    /\ ret = [kind |-> "none"]
    /\ conns = 0
    /\ loaded = -1

\* no call is in progress: the caller has taken the result of the last one
Idle == ret.kind = "none"

\* the caller takes the result of the call; the program is single-threaded,
\* so the next call starts only then
Return ==
    /\ ~Idle
    /\ call' = NoCall
    /\ ret' = [kind |-> "none"]
    /\ UNCHANGED <<db, inst, conns, loaded>>

\* the database server goes down or comes back
DbDown ==
    /\ Idle
    /\ db.reach = "up"
    /\ db' = [db EXCEPT !.reach = "down"]
    /\ UNCHANGED <<inst, call, ret, conns, loaded>>

DbUp ==
    /\ Idle
    /\ db.reach = "down"
    /\ db' = [db EXCEPT !.reach = "up"]
    /\ UNCHANGED <<inst, call, ret, conns, loaded>>

\* load_argo_data(csv_file_path)
Load ==
    /\ Idle
    /\ \E csv \in CsvFiles, engineOk \in BOOLEAN, writeOk \in BOOLEAN :
        \E r \in load_argo_data(csv, engineOk, writeOk, db) :
            /\ db' = r.db
            /\ call' = [op |-> "load_argo_data", via |-> "function",
                        args |-> [csv |-> csv, engineOk |-> engineOk, writeOk |-> writeOk],
                        trace |-> r.trace]
            /\ ret' = r.ret
            /\ conns' = conns + Held(r.trace)
            /\ loaded' = IF r.ret = Returns(TRUE) THEN Len(csv.rows)
                          ELSE IF r.db = db THEN loaded ELSE -1
            /\ UNCHANGED inst

\* query_handler = OceanDataQuery()
Construct ==
    /\ Idle
    /\ \E engineOk \in BOOLEAN :
        LET n == __init__(DefaultTable, engineOk, db)
        IN  /\ inst' = IF n.ok THEN n.self ELSE inst
            /\ call' = [op |-> "__init__", via |-> "method",
                        args |-> [engineOk |-> engineOk], trace |-> n.trace]
            /\ ret' = IF n.ok THEN [kind |-> "instance", self |-> n.self] ELSE Raised(n.exc)
            /\ conns' = conns + Held(n.trace)
            /\ UNCHANGED <<db, loaded>>

\* a method of the instance the caller holds: outcomes is the set of its outcomes
MethodCall(op, args, outcomes) ==
    /\ Idle
    /\ inst.alive
    /\ \E o \in outcomes :
        /\ call' = [op |-> op, via |-> "method", args |-> args, trace |-> o.trace]
        /\ ret' = o.ret
        /\ conns' = conns + Held(o.trace)
    /\ UNCHANGED <<db, inst, loaded>>

\* a module-level convenience function: construct, then call the method
FunctionCall(op, args, engineOk, n, outcomes) ==
    /\ Idle
    /\ IF n.ok
       THEN \E o \in outcomes :
               /\ call' = [op |-> op, via |-> "function", args |-> args,
                           trace |-> n.trace \o o.trace]
               /\ ret' = o.ret
               /\ conns' = conns + Held(n.trace \o o.trace)
       ELSE /\ call' = [op |-> op, via |-> "function", args |-> args, trace |-> n.trace]
            /\ ret' = Raised(n.exc)
            /\ conns' = conns + Held(n.trace)
    /\ UNCHANGED <<db, inst, loaded>>

Method_get_sample_data ==
    \E limit \in LimitValues, clock \in ClockValues :
        MethodCall("get_sample_data", [limit |-> limit], get_sample_data(inst, db, limit, clock))

Method_get_data_count ==
    \E clock \in ClockValues :
        MethodCall("get_data_count", <<>>, get_data_count(inst, db, clock))

Method_query_by_location ==
    \E lat_range \in LatRanges, lon_range \in LonRanges, limit \in LimitValues,
       clock \in ClockValues :
        MethodCall("query_by_location",
                   [lat_range |-> lat_range, lon_range |-> lon_range, limit |-> limit],
                   query_by_location(inst, db, lat_range, lon_range, limit, clock))

Method_query_by_date_range ==
    \E start_date \in DateValues, end_date \in DateValues, limit \in LimitValues,
       clock \in ClockValues :
        MethodCall("query_by_date_range",
                   [start_date |-> start_date, end_date |-> end_date, limit |-> limit],
                   query_by_date_range(inst, db, start_date, end_date, limit, clock))

\* self._format_response(data, success, message, metadata), called directly
Method_format_response ==
    /\ Idle
    /\ inst.alive
    /\ \E data \in {PyList(<<>>), Dict(<<>>)}, success \in BOOLEAN,
          metadata \in {NoMetadata, EmptyDict, Dict([query_type |-> "sample_data"])},
          clock \in ClockValues :
          /\ call' = [op |-> "_format_response", via |-> "method",
                      args |-> [data |-> data, success |-> success, metadata |-> metadata],
                      trace |-> <<>>]
          /\ ret' = Envelope(_format_response(data, success, Msg("", <<>>), metadata, clock))
    /\ UNCHANGED <<db, inst, conns, loaded>>

Method_get_data_summary ==
    \E clock \in ClockValues :
        MethodCall("get_data_summary", <<>>, get_data_summary(inst, db, clock))

Function_get_sample_data ==
    \E limit \in LimitValues, clock \in ClockValues, engineOk \in BOOLEAN :
        LET n == __init__(DefaultTable, engineOk, db)
        IN  FunctionCall("get_sample_data", [limit |-> limit], engineOk, n,
                         IF n.ok THEN get_sample_data(n.self, db, limit, clock) ELSE {})

Function_get_data_count ==
    \E clock \in ClockValues, engineOk \in BOOLEAN :
        LET n == __init__(DefaultTable, engineOk, db)
        IN  FunctionCall("get_data_count", <<>>, engineOk, n,
                         IF n.ok THEN get_data_count(n.self, db, clock) ELSE {})

Function_query_by_location ==
    \E lat_range \in LatRanges, lon_range \in LonRanges, limit \in LimitValues,
       clock \in ClockValues, engineOk \in BOOLEAN :
        LET n == __init__(DefaultTable, engineOk, db)
        IN  FunctionCall("query_by_location",
                         [lat_range |-> lat_range, lon_range |-> lon_range, limit |-> limit],
                         engineOk, n,
                         IF n.ok THEN query_by_location(n.self, db, lat_range, lon_range, limit, clock)
                                 ELSE {})

Function_query_by_date_range ==
    \E start_date \in DateValues, end_date \in DateValues, limit \in LimitValues,
       clock \in ClockValues, engineOk \in BOOLEAN :
        LET n == __init__(DefaultTable, engineOk, db)
        IN  FunctionCall("query_by_date_range",
                         [start_date |-> start_date, end_date |-> end_date, limit |-> limit],
                         engineOk, n,
                         IF n.ok THEN query_by_date_range(n.self, db, start_date, end_date, limit, clock)
                                 ELSE {})

Function_get_data_summary ==
    \E clock \in ClockValues, engineOk \in BOOLEAN :
        LET n == __init__(DefaultTable, engineOk, db)
        IN  FunctionCall("get_data_summary", <<>>, engineOk, n,
                         IF n.ok THEN get_data_summary(n.self, db, clock) ELSE {})

Next ==
    \/ Return
    \/ DbDown
    \/ DbUp
    \/ Load
    \/ Construct
    \/ Method_get_sample_data
    \/ Method_get_data_count
    \/ Method_query_by_location
    \/ Method_query_by_date_range
    \/ Method_get_data_summary
    \/ Method_format_response
    \/ Function_get_sample_data
    \/ Function_get_data_count
    \/ Function_query_by_location
    \/ Function_query_by_date_range
    \/ Function_get_data_summary

Spec == Init /\ [][Next]_vars

\* ------------------------------------------- a table of monthly observations
\* The summary over a table that holds at most one observation for each of
\* MaxMonths consecutive months from December 2018, and possibly one
\* observation without a datetime: the instance is constructed and the table
\* loaded; get_data_summary is called on it.
MaxMonths == 13

MonthRow(i) == Row({<<2018 + ((i + 10) \div 12), ((i + 10) % 12) + 1, 15, 0>>}, {0}, {70}, {i})
MonthRows == {MonthRow(i) : i \in 1..MaxMonths}
MonthTableRows == MonthRows \cup {RowD}

MonthTables == {[r \in MonthTableRows |-> IF r \in S THEN 1 ELSE 0] : S \in SUBSET MonthTableRows}

InitMonthly ==
    /\ db \in {[reach |-> "up", exists |-> TRUE, rows |-> b] : b \in MonthTables}
    /\ inst = __init__(DefaultTable, TRUE, db).self
    /\ call = NoCall
    /\ ret = [kind |-> "none"]
    /\ conns = 0
    /\ loaded = BagSize(db.rows)

NextMonthly == Method_get_data_summary \/ Return

SpecMonthly == InitMonthly /\ [][NextMonthly]_vars

\* -------------------------------------------------------------- properties
\* The state after a call holds the call (operation, arguments, events), what
\* the caller got, and the database the call ran against (a query changes
\* neither the database nor the instance).
QueryOps ==
    {"get_sample_data", "get_data_count", "query_by_location", "query_by_date_range",
     "get_data_summary"}

RowOps == {"get_sample_data", "query_by_location", "query_by_date_range"}

ByMethod == call.via = "method"
ByFunction == call.via = "function"
Returned == ret.kind = "envelope"

DbOk == db.reach = "up" /\ db.exists

\* the constraints on the arguments, as the specification states them
LimitIn(x, max) == x.t = "int" /\ 1 <= x.v /\ x.v <= max
LatOk(r) == r.t = "tuple" /\ -90 <= r.lo /\ r.lo <= r.hi /\ r.hi <= 90
LonOk(r) == r.t = "tuple" /\ -180 <= r.lo /\ r.lo <= r.hi /\ r.hi <= 180
IsDateArg(x) == x.t \in {"str", "date"}
DateParses(x) ==
    \/ x.t = "date"
    \/ x.t = "str" /\ x.s1 = "-" /\ x.s2 = "-" /\ x.m \in 1..12 /\ x.d \in 1..DaysIn(x.y, x.m)
DayLE(a, b) ==
    \/ a.y < b.y
    \/ a.y = b.y /\ a.m < b.m
    \/ a.y = b.y /\ a.m = b.m /\ a.d <= b.d
DatesOk(a, b) == DateParses(a) /\ DateParses(b) /\ DayLE(a, b)

ArgsValid ==
    CASE call.op = "get_sample_data" -> LimitIn(call.args.limit, 1000)
      [] call.op = "query_by_location" ->
            /\ LatOk(call.args.lat_range)
            /\ LonOk(call.args.lon_range)
            /\ LimitIn(call.args.limit, 10000)
      [] call.op = "query_by_date_range" ->
            /\ DatesOk(call.args.start_date, call.args.end_date)
            /\ LimitIn(call.args.limit, 10000)
      [] OTHER -> TRUE

ErrorPrefix(op) ==
    CASE op = "get_sample_data" -> "Error retrieving sample data: %s"
      [] op = "get_data_count" -> "Error counting records: %s"
      [] op = "query_by_location" -> "Error querying by location: %s"
      [] op = "query_by_date_range" -> "Error querying by date range: %s"
      [] op = "get_data_summary" -> "Error generating data summary: %s"

IsEmptyData(op, data) ==
    CASE op \in RowOps -> data.t = "list" /\ data.items = <<>>
      [] op = "get_data_count" -> data.t = "dict" /\ data.d = [total_records |-> 0]
      [] op = "get_data_summary" -> data.t = "dict" /\ DOMAIN data.d = {}

\* an error envelope of the operation: success false, the error text in the
\* message, the operation's empty data
IsErrorEnvelope(op, e) ==
    /\ e.success = FALSE
    /\ e.message.text = ErrorPrefix(op)
    /\ Len(e.message.args) = 1
    /\ e.message.args[1].text # ""
    /\ IsEmptyData(op, e.data)

\* C1: each of the five methods of an instance returns an envelope and never
\* raises, for every argument and database state; when validation or the
\* database fails the envelope has success false, the error text in its
\* message and the operation's empty or zeroed data.
C1_MethodsNeverRaise ==
    (ByMethod /\ call.op \in QueryOps) =>
        /\ Returned
        /\ (~ArgsValid \/ ~DbOk) => IsErrorEnvelope(call.op, ret.env)

\* a TypeError (a limit of None) is caught and reported in an envelope
C1_Witness ==
    /\ ByMethod
    /\ call.op = "get_sample_data"
    /\ call.args.limit = PyNone
    /\ Returned
    /\ ret.env.success = FALSE
    /\ ret.env.message.args[1].text = "'<=' not supported between instances of %s and 'int'"

\* C2: a caller of the module-level functions always receives a well-formed
\* envelope and never an exception, also when the database is unreachable.
C2_FunctionsNeverRaise ==
    (ByFunction /\ call.op \in QueryOps) =>
        /\ Returned
        /\ {"success", "timestamp", "message", "data"} \subseteq DOMAIN ret.env

\* C3: the constructor probes the database at once; when creating the engine,
\* connecting or the probe fails it raises OceanDataQueryError and the caller
\* gets no instance; an instance is obtained only after a successful probe,
\* and its engine is set.
ProbeSucceeds == call.args.engineOk /\ db.reach = "up"

C3_ConstructorFailsFast ==
    /\ inst.alive => inst.engine = Engine
    /\ call.op = "__init__" =>
        /\ ~ProbeSucceeds => ret.kind = "raise" /\ ret.exc.type = "OceanDataQueryError"
        /\ ret.kind = "instance" =>
            /\ ProbeSucceeds
            /\ ret.self.engine = Engine
            /\ call.trace = <<"connect", "open", "execute", "release">>
            /\ inst = ret.self

\* the constructor raised because the server is down
C3_Witness ==
    /\ call.op = "__init__"
    /\ call.args.engineOk
    /\ db.reach = "down"
    /\ ret.kind = "raise"
    /\ ret.exc.msg.text = "Failed to connect to database: %s"

\* C4: every envelope has exactly the keys success, timestamp, message and
\* data, plus metadata if and only if a non-empty metadata mapping was
\* supplied; a success envelope of the five operations carries metadata and
\* an error envelope none.
EnvelopeKeys == {"success", "timestamp", "message", "data"}

C4_EnvelopeKeys ==
    Returned =>
        /\ DOMAIN ret.env \in {EnvelopeKeys, EnvelopeKeys \cup {"metadata"}}
        /\ "metadata" \in DOMAIN ret.env =>
              ret.env.metadata.t = "dict" /\ DOMAIN ret.env.metadata.d # {}
        /\ call.op = "_format_response" =>
              ("metadata" \in DOMAIN ret.env <=>
                  (call.args.metadata.t = "dict" /\ DOMAIN call.args.metadata.d # {}))
        /\ call.op \in QueryOps => (ret.env.success <=> "metadata" \in DOMAIN ret.env)

\* an empty metadata mapping was supplied and the envelope has no metadata key
C4_Witness ==
    /\ call.op = "_format_response"
    /\ call.args.metadata = EmptyDict
    /\ Returned
    /\ DOMAIN ret.env = EnvelopeKeys

\* the database events of the operation itself: a module-level function first
\* constructs an instance, whose probe makes the first four events
QueryEvents ==
    IF ByFunction THEN SubSeq(call.trace, 5, Len(call.trace)) ELSE call.trace

Executed == \E i \in DOMAIN QueryEvents : QueryEvents[i] = "execute"

OtherArgsValid ==
    CASE call.op = "query_by_location" ->
            LatOk(call.args.lat_range) /\ LonOk(call.args.lon_range)
      [] call.op = "query_by_date_range" ->
            DatesOk(call.args.start_date, call.args.end_date)
      [] OTHER -> TRUE

LimitRule(max) ==
    LET v == call.args.limit.v
    IN  /\ (v < 1 \/ v > max) => /\ ret.env.success = FALSE
                                 /\ IsEmptyData(call.op, ret.env.data)
                                 /\ ~Executed
        /\ (1 <= v /\ v <= max /\ db.reach = "up") => Executed
        /\ (1 <= v /\ v <= max /\ DbOk) => ret.env.success = TRUE

\* C5: get_sample_data rejects every integer limit outside [1,1000], and
\* query_by_location and query_by_date_range (their ranges being valid) every
\* integer limit outside [1,10000], with success false and data []; the
\* limits 1 and 1000 (1 and 10000) are accepted and the query is executed.
C5_LimitRange ==
    (Returned /\ call.op \in RowOps /\ call.args.limit.t = "int" /\ OtherArgsValid) =>
        IF call.op = "get_sample_data" THEN LimitRule(1000) ELSE LimitRule(10000)

\* the limit 10000 is accepted by query_by_date_range and rows come back
C5_Witness ==
    /\ call.op = "query_by_date_range"
    /\ call.args.limit = PyInt(10000)
    /\ Returned
    /\ ret.env.success
    /\ Len(ret.env.data.items) >= 1

IsCoordinateError(e) ==
    /\ ~e.success
    /\ e.message.args[1].text \in
          {"Invalid latitude range: %s. Must be between -90 and 90",
           "Invalid longitude range: %s. Must be between -180 and 180"}

\* C6: query_by_location returns success false and data [] for every
\* latitude range not satisfying -90 <= min <= max <= 90 and every longitude
\* range not satisfying -180 <= min <= max <= 180, whatever the limit; ranges
\* satisfying both, the one-point ranges and the exact bounds included, pass
\* validation.
C6_CoordinateValidation ==
    (Returned /\ call.op = "query_by_location"
        /\ call.args.lat_range.t = "tuple" /\ call.args.lon_range.t = "tuple") =>
        LET ok == LatOk(call.args.lat_range) /\ LonOk(call.args.lon_range)
        IN  /\ ~ok => /\ IsCoordinateError(ret.env)
                      /\ IsEmptyData(call.op, ret.env.data)
                      /\ ~Executed
            /\ ok => ~IsCoordinateError(ret.env)
            /\ (ok /\ LimitIn(call.args.limit, 10000) /\ DbOk) => ret.env.success = TRUE

\* a one-point latitude range with the exact longitude bounds returns a row
C6_Witness ==
    /\ call.op = "query_by_location"
    /\ call.args.lat_range = PyRange(0, 0)
    /\ call.args.lon_range = PyRange(-180, 180)
    /\ Returned
    /\ ret.env.success
    /\ Len(ret.env.data.items) >= 1

\* the number of rows of the table that satisfy P
RowsWith(P(_)) == SumOver([r \in RowValues |-> IF P(r) THEN db.rows[r] ELSE 0], RowValues)

\* C7: for valid ranges and limit on a reachable table query_by_location
\* returns success true with min(limit, number of matching rows) records,
\* each inside both ranges, and the message and metadata.returned_records
\* state the number of records in data.
C7_LocationResults ==
    (Returned /\ call.op = "query_by_location" /\ ArgsValid /\ DbOk) =>
        LET lat == call.args.lat_range
            lon == call.args.lon_range
            items == ret.env.data.items
            Matches(r) == /\ r.lat # {} /\ \A v \in r.lat : lat.lo <= v /\ v <= lat.hi
                          /\ r.lon # {} /\ \A v \in r.lon : lon.lo <= v /\ v <= lon.hi
        IN  /\ ret.env.success = TRUE
            /\ Len(items) <= call.args.limit.v
            /\ Len(items) = Min(call.args.limit.v, RowsWith(Matches))
            /\ \A i \in DOMAIN items :
                  /\ items[i].lat.t = "int"
                  /\ lat.lo <= items[i].lat.v /\ items[i].lat.v <= lat.hi
                  /\ items[i].lon.t = "int"
                  /\ lon.lo <= items[i].lon.v /\ items[i].lon.v <= lon.hi
            /\ ret.env.message = Msg("Retrieved %d records for location query", <<Len(items)>>)
            /\ ret.env.metadata.d.returned_records = Len(items)

\* the limit cuts the matching rows, and a row of the table is outside the box
C7_Witness ==
    /\ call.op = "query_by_location"
    /\ call.args.lat_range = PyRange(-10, 10)
    /\ call.args.lon_range = PyRange(60, 80)
    /\ call.args.limit = PyInt(1)
    /\ Returned
    /\ ret.env.success
    /\ Len(ret.env.data.items) = 1
    /\ db.rows[RowA] = 1
    /\ db.rows[RowB] = 1

DateErrorText(e) == IF e.success THEN "" ELSE e.message.args[1].text

\* C8: query_by_date_range returns success false whenever the start date is
\* later than the end date and whenever a string date does not parse as
\* YYYY-MM-DD (the message then says "Invalid date format"); every pair of
\* parseable dates with start <= end passes validation, whether the dates are
\* strings, date objects or one of each.
C8_DateValidation ==
    (Returned /\ call.op = "query_by_date_range") =>
        LET s == call.args.start_date
            e == call.args.end_date
            unparsed(x) == x.t = "str" /\ ~DateParses(x)
        IN  /\ (DateParses(s) /\ DateParses(e) /\ ~DayLE(s, e)) =>
                  /\ ret.env.success = FALSE
                  /\ DateErrorText(ret.env) = "Start date %s must be before end date %s"
            /\ (unparsed(s) \/ unparsed(e)) => ret.env.success = FALSE
            /\ (IsDateArg(s) /\ IsDateArg(e) /\ (unparsed(s) \/ unparsed(e))) =>
                  DateErrorText(ret.env) = "Invalid date format: %s"
            /\ DatesOk(s, e) =>
                  DateErrorText(ret.env) \notin
                      {"Invalid date format: %s", "Start date %s must be before end date %s"}
            /\ (DatesOk(s, e) /\ LimitIn(call.args.limit, 10000) /\ DbOk) =>
                  ret.env.success = TRUE

\* a date object and a string naming the same day are accepted
C8_Witness ==
    /\ call.op = "query_by_date_range"
    /\ call.args.start_date = PyDate(2019, 1, 29)
    /\ call.args.end_date = PyDateStr(2019, "-", 1, "-", 29)
    /\ Returned
    /\ ret.env.success
    /\ Len(ret.env.data.items) >= 1

\* C9: for valid dates and limit on a reachable table query_by_date_range
\* returns exactly the first min(limit, number of matching rows) rows, in
\* ascending timestamp order, among the rows whose timestamp lies between
\* the start and the end date inclusive, the rows timestamped during the end
\* day included.
C9_DateRangeInclusive ==
    (Returned /\ call.op = "query_by_date_range" /\ ArgsValid /\ DbOk) =>
        LET s == call.args.start_date
            e == call.args.end_date
            items == ret.env.data.items
            DayOf(ts) == [y |-> ts[1], m |-> ts[2], d |-> ts[3]]
            InRange(ts) == DayLE(s, DayOf(ts)) /\ DayLE(DayOf(ts), e)
            Matches(r) == r.datetime # {} /\ \A v \in r.datetime : InRange(v)
        IN  /\ ret.env.success = TRUE
            /\ Len(items) = Min(call.args.limit.v, RowsWith(Matches))
            /\ \A i \in DOMAIN items :
                  items[i].datetime.t = "datetime" /\ InRange(items[i].datetime.v)
            /\ \A i, j \in DOMAIN items :
                  i < j => TsLE(items[i].datetime.v, items[j].datetime.v)

\* C10: on a reachable table get_data_count returns success true with
\* data.total_records the number of rows of the table, 0 on an empty table.
C10_CountIsTableSize ==
    (Returned /\ call.op = "get_data_count" /\ DbOk) =>
        /\ ret.env.success = TRUE
        /\ ret.env.data = Dict([total_records |-> RowsWith(LAMBDA r : TRUE)])

\* the table exists and is empty, and the count is 0 with success true
C10_Witness ==
    /\ call.op = "get_data_count"
    /\ Returned
    /\ db.exists
    /\ \A r \in RowValues : db.rows[r] = 0
    /\ ret.env.success
    /\ ret.env.data.d.total_records = 0

\* C11: after load_argo_data succeeds on a CSV file of N rows the table is
\* the rows of the file and nothing else, and a get_data_count that reaches
\* the database afterwards returns total_records = N, whatever the table
\* held before the load.
C11_LoadReplaces ==
    /\ (call.op = "load_argo_data" /\ ret = Returns(TRUE)) =>
          /\ db.exists
          /\ db.rows = SeqToBag(call.args.csv.rows)
          /\ loaded = Len(call.args.csv.rows)
    /\ (call.op = "get_data_count" /\ Returned /\ db.reach = "up" /\ loaded >= 0) =>
          /\ ret.env.success = TRUE
          /\ ret.env.data = Dict([total_records |-> loaded])

\* a count taken after the load of a file of one row, which returns 1
C11_Witness ==
    /\ call.op = "get_data_count"
    /\ Returned
    /\ loaded = 1
    /\ ret.env.success
    /\ ret.env.data.d.total_records = 1

\* C12: a call of load_argo_data never raises; with a CSV path that does not
\* exist it returns False, opens no database connection and leaves the table
\* exactly as it was; when reading the file or writing the table fails it
\* returns False.
C12_LoadFailsSoftly ==
    [][(Idle /\ call'.op = "load_argo_data") =>
          LET csv == call'.args.csv
          IN  /\ ret'.kind = "bool"
              /\ ~csv.exists =>
                    /\ ret' = Returns(FALSE)
                    /\ call'.trace = <<>>
                    /\ conns' = conns
                    /\ db' = db
              /\ (csv.exists /\ ~csv.readable) => ret' = Returns(FALSE)
              /\ (~call'.args.engineOk \/ db.reach = "down" \/ ~call'.args.writeOk) =>
                    ret' = Returns(FALSE)]_vars

\* a load from a path that does not exist returned False beside a table that
\* holds rows
C12_Witness ==
    /\ call.op = "load_argo_data"
    /\ ~call.args.csv.exists
    /\ ret = Returns(FALSE)
    /\ call.trace = <<>>
    /\ db.exists
    /\ BagSize(db.rows) > 0

YearMonthOf(e) == <<e.year.num, e.month.num>>
YearMonthLT(a, b) == a[1] < b[1] \/ (a[1] = b[1] /\ a[2] < b[2])
MonthsPresent == {<<v[1], v[2]>> : v \in ColumnValues(db.rows, "datetime")}
RowsOfMonth(k) == SumOver([r \in DOMAIN db.rows |->
                              IF YearMonth(r) = {k} THEN db.rows[r] ELSE 0], DOMAIN db.rows)

\* C13: the temporal_distribution of a successful get_data_summary has at
\* most 12 entries; its entries that carry a year and a month are one for
\* each distinct (year, month) of the table, each with the number of rows of
\* that month, in increasing (year, month) order; a month of the table is
\* left out only when there are 12 such entries, all of them earlier.
C13_TemporalDistribution ==
    (call.op = "get_data_summary" /\ Returned /\ ret.env.success) =>
        LET td == ret.env.data.d.temporal_distribution.items
            dated == {i \in DOMAIN td : td[i].year # PyNaN /\ td[i].month # PyNaN}
        IN  /\ Len(td) <= 12
            /\ \A i \in dated :
                  /\ YearMonthOf(td[i]) \in MonthsPresent
                  /\ td[i].record_count = PyInt(RowsOfMonth(YearMonthOf(td[i])))
            /\ \A i, j \in dated : i < j => YearMonthLT(YearMonthOf(td[i]), YearMonthOf(td[j]))
            /\ \A k \in MonthsPresent :
                  \/ \E i \in dated : YearMonthOf(td[i]) = k
                  \/ /\ Cardinality(dated) = 12
                     /\ \A i \in dated : YearMonthLT(YearMonthOf(td[i]), k)

\* the table holds 13 months, December 2018 to December 2019, and the summary
\* lists the 12 from December 2018 to November 2019
C13_Witness ==
    /\ call.op = "get_data_summary"
    /\ Returned
    /\ ret.env.success
    /\ Cardinality(MonthsPresent) = 13
    /\ LET td == ret.env.data.d.temporal_distribution.items
       IN  /\ Len(td) = 12
           /\ YearMonthOf(td[1]) = <<2018, 12>>
           /\ YearMonthOf(td[12]) = <<2019, 11>>

\* C14: no record of a returned record list holds NaN: in the rows of the
\* three row-returning operations and in the temporal_distribution of the
\* summary a column that is NULL in the database is None.
C14_NoNaNInRecords ==
    /\ (call.op \in RowOps /\ Returned /\ ret.env.success) =>
          \A i \in DOMAIN ret.env.data.items : \A c \in DOMAIN Columns :
              ret.env.data.items[i][Columns[c]] # PyNaN
    /\ (call.op = "get_data_summary" /\ Returned /\ ret.env.success) =>
          LET td == ret.env.data.d.temporal_distribution.items
          IN  \A i \in DOMAIN td :
                  /\ td[i].year # PyNaN
                  /\ td[i].month # PyNaN
                  /\ td[i].record_count # PyNaN

\* an aggregate as the summary is to surface it: None when it is NULL, its
\* value otherwise
SurfacedNumber(cell) == IF cell = {} THEN PyNone ELSE PyFloat(CHOOSE v \in cell : TRUE, 1)
SurfacedAverage(cell) ==
    IF cell = {} THEN PyNone ELSE LET v == CHOOSE x \in cell : TRUE IN PyFloat(v[1], v[2])
SurfacedDate(cell) == IF cell = {} THEN PyNone ELSE PyStr(CHOOSE v \in cell : TRUE)

\* C15: a successful get_data_summary reports each aggregate (min/max
\* latitude and longitude, average/minimum/maximum mld, earliest/latest date)
\* as None exactly when no row supplied a value for it, and as its value
\* otherwise, a value of 0 included; total_records and unique_dates are 0
\* when no row matches.
C15_AggregatesNullOnlyWhenMissing ==
    (call.op = "get_data_summary" /\ Returned /\ ret.env.success) =>
        LET row == SummaryRow(db.rows)
            data == ret.env.data.d
        IN  /\ data.geographic_extent.latitude_range.min = SurfacedNumber(row.c1)
            /\ data.geographic_extent.latitude_range.max = SurfacedNumber(row.c2)
            /\ data.geographic_extent.longitude_range.min = SurfacedNumber(row.c3)
            /\ data.geographic_extent.longitude_range.max = SurfacedNumber(row.c4)
            /\ data.dataset_overview.date_range.earliest = SurfacedDate(row.c5)
            /\ data.dataset_overview.date_range.latest = SurfacedDate(row.c6)
            /\ data.mixed_layer_depth_stats.average = SurfacedAverage(row.c7)
            /\ data.mixed_layer_depth_stats.minimum = SurfacedNumber(row.c8)
            /\ data.mixed_layer_depth_stats.maximum = SurfacedNumber(row.c9)
            /\ BagSize(WhereMldNotNull(db.rows)) = 0 =>
                  /\ data.dataset_overview.total_records = PyInt(0)
                  /\ data.dataset_overview.unique_dates = PyInt(0)

\* the events from the i-th on
EventsFrom(trace, i) == SubSeq(trace, i, Len(trace))

\* C16: every connection a call of the five operations (or the probe of the
\* constructor) opens is released before the call returns, whether it
\* succeeds, fails validation or fails in the database: in the events of the
\* call every "open" is followed by a "release", and no connection is held
\* open once the call has returned.
C16_ConnectionsReleased ==
    /\ conns = 0
    /\ (call.op \in QueryOps \cup {"__init__"}) =>
          /\ Held(call.trace) = 0
          /\ \A i \in DOMAIN call.trace :
                call.trace[i] = "open" =>
                    \E j \in DOMAIN call.trace : j > i /\ call.trace[j] = "release"
                                                  /\ Held(EventsFrom(call.trace, j + 1)) = 0

\* a query that failed in the database (the table does not exist) after it
\* opened a connection, and holds none
C16_Witness ==
    /\ call.op = "query_by_location"
    /\ ByMethod
    /\ Returned
    /\ ~ret.env.success
    /\ db.reach = "up"
    /\ ~db.exists
    /\ \E i \in DOMAIN call.trace : call.trace[i] = "open"
    /\ conns = 0

LimitFails(max) == call.args.limit.t = "int" /\ ~LimitIn(call.args.limit, max)
RangeFails ==
    /\ call.args.lat_range.t = "tuple"
    /\ call.args.lon_range.t = "tuple"
    /\ ~(LatOk(call.args.lat_range) /\ LonOk(call.args.lon_range))
DatesFail ==
    /\ IsDateArg(call.args.start_date)
    /\ IsDateArg(call.args.end_date)
    /\ ~DatesOk(call.args.start_date, call.args.end_date)

\* C17: in get_sample_data, query_by_location and query_by_date_range an
\* argument that fails validation (limit, coordinate range, date format, date
\* order) gives the error envelope of the operation with no connection
\* opened and no statement executed by the operation; in query_by_location
\* and query_by_date_range, when the range or the dates and the limit are
\* all invalid, the message is that of the range or of the dates.
C17_ValidationBeforeAccess ==
    (Returned /\ call.op \in RowOps) =>
        /\ ~ArgsValid =>
              /\ IsErrorEnvelope(call.op, ret.env)
              /\ QueryEvents = <<>>
        /\ (call.op = "query_by_location" /\ RangeFails /\ LimitFails(10000)) =>
              IsCoordinateError(ret.env)
        /\ (call.op = "query_by_date_range" /\ DatesFail /\ LimitFails(10000)) =>
              DateErrorText(ret.env) \in
                  {"Invalid date format: %s", "Start date %s must be before end date %s"}

\* a location query with a latitude range outside [-90, 90] and a limit of 0:
\* the coordinate error is reported and nothing reached the database
C17_Witness ==
    /\ call.op = "query_by_location"
    /\ Returned
    /\ RangeFails
    /\ LimitFails(10000)
    /\ IsCoordinateError(ret.env)
    /\ QueryEvents = <<>>

\* C18: the dataset_overview.total_records of a successful get_data_summary
\* equals the total_records that get_data_count returns on the same table,
\* rows with a NULL mld included.
C18_SummaryCountsEveryRow ==
    (call.op = "get_data_summary" /\ Returned /\ ret.env.success) =>
        \A o \in get_data_count([alive |-> TRUE, table_name |-> DefaultTable, engine |-> Engine],
                                 db, 0) :
            /\ o.ret.env.success
            /\ ret.env.data.d.dataset_overview.total_records =
                  PyInt(o.ret.env.data.d.total_records)

====
